---- MODULE Spec2Model ----
(***************************************************************************)
(* Argument normalisation and range resolution of spb (spb/utils.py):      *)
(* _create_ranges, _check_arguments, _unpack_args and _is_range.           *)
(*                                                                         *)
(* Python objects are records of one shape                                 *)
(*   [kind, name, dummy_index, fs, elems]                                  *)
(* kind is "Symbol", "Dummy", "Number", "Expr" (a compound expression),    *)
(* "str" or "Tuple" (a sympy Tuple, what _plot_sympify makes of a list or  *)
(* tuple). name is the printed form of an atom or the text of a str, fs    *)
(* the free symbols of a compound expression, elems the elements of a      *)
(* Tuple. The empty str "" is the code's "no label" marker and is not a    *)
(* label a caller passes.                                                  *)
(***************************************************************************)
EXTENDS Integers, Sequences, FiniteSets, TLC

VARIABLES pc, fn, free_symbols, ranges0, ranges, args, nexpr, npar, ret,
          raised, Dummy_count, kwargs, warnings

vars == <<pc, fn, free_symbols, ranges0, ranges, args, nexpr, npar, ret,
          raised, Dummy_count, kwargs, warnings>>

-----------------------------------------------------------------------------
(* Bounds of the model *)

\* largest number of supplied ranges in a direct call of _create_ranges
MaxRanges == 3
\* largest arity (npar) a call asks for
MaxNpar == 3
\* largest number of expressions per curve (nexpr)
MaxNexpr == 2
\* largest number of positional arguments of a flat call
MaxArgs == 4
\* largest number of dummies created before the call
MaxDummy == 2
\* largest arity (npar) in a call of _check_arguments
MaxArity == 2
\* largest number of items in a call whose arguments are groups
MaxLeaves == 3
\* largest number of keyword arguments of a call of _build_series
MaxKwargs == 3
\* largest number of expressions of a call of _build_series
MaxExprs == 2
\* largest number of keyword arguments of a call of _plot_complex
MaxPlotKwargs == 2

-----------------------------------------------------------------------------
(* Python objects *)

Symbol(n) == [kind |-> "Symbol", name |-> n, dummy_index |-> 0, fs |-> {},
              elems |-> <<>>]

Dummy(count) == [kind |-> "Dummy", name |-> "Dummy", dummy_index |-> count,
                 fs |-> {}, elems |-> <<>>]

Number(n) == [kind |-> "Number", name |-> n, dummy_index |-> 0, fs |-> {},
              elems |-> <<>>]

Expr(n, f) == [kind |-> "Expr", name |-> n, dummy_index |-> 0, fs |-> f,
               elems |-> <<>>]

Str(s) == [kind |-> "str", name |-> s, dummy_index |-> 0, fs |-> {},
           elems |-> <<>>]

Tuple(e) == [kind |-> "Tuple", name |-> "", dummy_index |-> 0, fs |-> {},
             elems |-> e]

\* isinstance(a, (Expr, Relational, BooleanFunction))
isExpr(a) == a.kind \in {"Symbol", "Dummy", "Number", "Expr"}

\* isinstance(a, str)
isStr(a) == a.kind = "str"

\* a.is_number
is_number(a) == a.kind = "Number"

_is_range(r) ==
    /\ r.kind = "Tuple"
    /\ Len(r.elems) = 3
    /\ is_number(r.elems[2])
    /\ is_number(r.elems[3])

\* [r[0] for r in ranges], as the set the code builds from it
range_symbols(rs) == {rs[i].elems[1] : i \in 1..Len(rs)}

get_default_range(symbol) == Tuple(<<symbol, Number("-10"), Number("10")>>)

\* the orders in which Python may iterate over the set S
Perms(S) == {p \in [1..Cardinality(S) -> S] :
                \A i, j \in 1..Cardinality(S) : i # j => p[i] # p[j]}

-----------------------------------------------------------------------------
(* _create_ranges(free_symbols, ranges, npar)                              *)
(* The list `ranges` is changed in place by append, so the operator gives  *)
(* the final contents of that list object, the exception raised ("none"    *)
(* when the call returns; the returned value is then the list object), and *)
(* the number of dummies created so far. `order` is the order in which     *)
(* Python iterates over a set of symbols.                                  *)

\* for s in symbols: ranges.append(get_default_range(s))
default_ranges(symbols, order) ==
    LET todo == SelectSeq(order, LAMBDA s : s \in symbols)
    IN  [i \in 1..Len(todo) |-> get_default_range(todo[i])]

\* the padding loop with one Dummy() hoisted out of the loop
dummy_ranges_hoisted(n, count) ==
    [i \in 1..n |-> get_default_range(Dummy(count))]

\* for i in range(npar - len(ranges)): ranges.append(get_default_range(Dummy()))
dummy_ranges(n, count) ==
    [i \in 1..n |-> get_default_range(Dummy(count + i - 1))]

\* the body of `if len(ranges) < npar:`
fill_ranges(fsyms, rs, n, order, count) ==
    LET rfs     == range_symbols(rs)
        symbols == fsyms \ rfs
        rs1     == rs \o default_ranges(symbols, order)
        room    == IF n - Len(rs1) > 0 THEN n - Len(rs1) ELSE 0
    IN  [ranges |-> rs1 \o dummy_ranges(room, count), count |-> count + room]

\* the guard of the final check written `<=` instead of `==`
final_check_applies_le(fsyms, n) == Cardinality(fsyms) <= n

\* `if len(free_symbols) == npar:` guards the final consistency check
final_check_applies(fsyms, n) == Cardinality(fsyms) = n

_create_ranges(fsyms, rs, n, order, count) ==
    IF Cardinality(fsyms) > n
    THEN [ranges |-> rs, raised |-> "TooManyFreeSymbols", count |-> count]
    ELSE IF Len(rs) > n
    THEN [ranges |-> rs, raised |-> "TooManyRanges", count |-> count]
    ELSE IF Cardinality(range_symbols(rs)) # Len(rs)
    THEN [ranges |-> rs, raised |-> "DuplicateRangeSymbol", count |-> count]
    ELSE LET f == IF Len(rs) < n
                  THEN fill_ranges(fsyms, rs, n, order, count)
                  ELSE [ranges |-> rs, count |-> count]
         IN  IF /\ final_check_applies(fsyms, n)
                /\ fsyms \ range_symbols(f.ranges) # {}
             THEN [ranges |-> f.ranges, raised |-> "IncompatibleRanges",
                   count |-> f.count]
             ELSE [ranges |-> f.ranges, raised |-> "none", count |-> f.count]

-----------------------------------------------------------------------------
(* Python helpers used by _check_arguments and _unpack_args *)

\* a Python list
List(e) == [kind |-> "list", name |-> "", dummy_index |-> 0, fs |-> {},
            elems |-> e]

\* a Python tuple
PyTuple(e) == [kind |-> "tuple", name |-> "", dummy_index |-> 0, fs |-> {},
               elems |-> e]

\* isinstance(a, (list, tuple, Tuple))
isSequence(a) == a.kind \in {"list", "tuple", "Tuple"}

\* s[:n]
Take(s, n) == SubSeq(s, 1, IF n < Len(s) THEN n ELSE Len(s))

\* s[n:]
Drop(s, n) == SubSeq(s, n + 1, Len(s))

\* s[:-n] for n > 0
DropLast(s, n) == SubSeq(s, 1, Len(s) - n)

RECURSIVE str(_), repr(_), join(_)

\* ", ".join(repr(a) for a in s)
join(s) ==
    IF Len(s) = 0 THEN ""
    ELSE IF Len(s) = 1 THEN repr(s[1])
    ELSE repr(s[1]) \o ", " \o join(Tail(s))

\* str(a): atoms print their text, a dummy prints as _Dummy_<index>, a
\* tuple as (a, b), a tuple of one element as (a,), a list as [a, b]
str(a) ==
    CASE a.kind = "Dummy" -> "_Dummy_" \o ToString(a.dummy_index)
      [] a.kind = "list"  -> "[" \o join(a.elems) \o "]"
      [] a.kind \in {"tuple", "Tuple"} ->
            "(" \o join(a.elems) \o (IF Len(a.elems) = 1 THEN ",)" ELSE ")")
      [] OTHER -> a.name

repr(a) == IF a.kind = "str" THEN "'" \o a.name \o "'" ELSE str(a)

RECURSIVE has_free_symbols(_)

\* a.free_symbols does not raise AttributeError
has_free_symbols(a) ==
    CASE a.kind \in {"str", "list", "tuple"} -> FALSE
      [] a.kind = "Tuple" ->
            \A i \in 1..Len(a.elems) : has_free_symbols(a.elems[i])
      [] OTHER -> TRUE

RECURSIVE free_symbols_of(_)

\* a.free_symbols
free_symbols_of(a) ==
    CASE a.kind \in {"Symbol", "Dummy"} -> {a}
      [] a.kind = "Expr" -> a.fs
      [] a.kind = "Tuple" ->
            UNION {free_symbols_of(a.elems[i]) : i \in 1..Len(a.elems)}
      [] OTHER -> {}

\* set().union(*[e.free_symbols for e in s])
union_free_symbols(s) == UNION {free_symbols_of(s[i]) : i \in 1..Len(s)}

\* the output tuple: the elements of e, then the ranges, then the label
output_tuple(e, rs, label) == e \o rs \o <<Str(label)>>

failed(exc, count) == [ret |-> <<>>, raised |-> exc, count |-> count]

-----------------------------------------------------------------------------
(* _check_arguments(args, nexpr, npar), first branch: the first nexpr      *)
(* arguments are expressions                                               *)

\* [a for a, b in zip(args, res) if b]
select_exprs(a) == SelectSeq(a, LAMBDA t : ~(_is_range(t) \/ isStr(t)))

\* label = args[-1] if isinstance(args[-1], str) else ""
last_label(a) == IF isStr(a[Len(a)]) THEN a[Len(a)].name ELSE ""

\* if nexpr > 1: if len(exprs) == nexpr: exprs = (tuple(exprs),)
group_exprs(exprs, ne) ==
    IF ne > 1 /\ Len(exprs) = ne THEN <<PyTuple(exprs)>> ELSE exprs

\* the loop body with current_label taken from the expression only
entry_A_own_label(expr, rs, label) ==
    LET e == IF isExpr(expr) THEN PyTuple(<<expr>>) ELSE expr
    IN  output_tuple(e.elems, rs, str(expr))

\* the body of `for expr in exprs:`
entry_A(expr, rs, label) ==
    LET e == IF isExpr(expr) THEN PyTuple(<<expr>>) ELSE expr
        current_label ==
            IF label # "" THEN label
            ELSE IF isExpr(expr) THEN str(expr) ELSE str(e)
    IN  output_tuple(e.elems, rs, current_label)

mode_A(a, ne, n, order, count) ==
    LET exprs == select_exprs(a)
        rs0   == SelectSeq(Drop(a, ne), _is_range)
        label == last_label(a)
    IN  IF ~(\A i \in 1..Len(rs0) : _is_range(rs0[i]))
        THEN failed("MalformedArguments", count)
        ELSE IF \E i \in 1..Len(exprs) : ~has_free_symbols(exprs[i])
        THEN failed("AttributeError", count)
        ELSE LET res == _create_ranges(union_free_symbols(exprs), rs0, n,
                                       order, count)
                 grouped == group_exprs(exprs, ne)
             IN  IF res.raised # "none" THEN failed(res.raised, res.count)
                 ELSE [ret |-> [i \in 1..Len(grouped) |->
                                   entry_A(grouped[i], res.ranges, label)],
                       raised |-> "none", count |-> res.count]

-----------------------------------------------------------------------------
(* _check_arguments, second branch: each argument is a group               *)
(* (expr, ..., range [optional], label [optional])                         *)

\* r = ranges without the copy: the group fills the call-level list itself
ranges_after_group_alias(rs, rfinal, fell_back) ==
    IF fell_back THEN rfinal ELSE rs

\* r = ranges.copy(): what the call-level list holds after a group that fell
\* back on it was resolved to rfinal
ranges_after_group(rs, rfinal, fell_back) == rs

\* label = (str(arg[0]) if nexpr == 1 else str(arg)) if not l else l[0]
label_B(arg, l, ne) ==
    IF l = <<>> THEN (IF ne = 1 THEN str(arg.elems[1]) ELSE str(arg))
    ELSE l[1].name

\* the body of `for arg in new_args:` for an argument that can be iterated
group_B(arg0, labels, rs, ne, n, order, count) ==
    LET l0  == SelectSeq(arg0.elems, isStr)
        l   == IF l0 = <<>> THEN labels ELSE l0
        r0  == SelectSeq(arg0.elems, _is_range)
        r   == IF r0 = <<>> THEN rs ELSE r0
        arg == [arg0 EXCEPT !.elems = Take(arg0.elems, ne)]
    IN  IF \E i \in 1..Len(arg.elems) : ~has_free_symbols(arg.elems[i])
        THEN [entry |-> <<>>, raised |-> "AttributeError", count |-> count,
              ranges |-> rs]
        ELSE LET res == IF Len(r) # n
                        THEN _create_ranges(union_free_symbols(arg.elems), r,
                                            n, order, count)
                        ELSE [ranges |-> r, raised |-> "none",
                              count |-> count]
             IN  [entry  |-> IF res.raised = "none"
                             THEN output_tuple(arg.elems, res.ranges,
                                               label_B(arg, l, ne))
                             ELSE <<>>,
                  raised |-> res.raised,
                  count  |-> res.count,
                  ranges |-> ranges_after_group(rs, res.ranges, r0 = <<>>)]

RECURSIVE loop_B(_, _, _, _, _, _, _, _, _)

\* for arg in new_args: ...; output.append(...)
loop_B(new_args, i, labels, rs, ne, n, order, count, output) ==
    IF i > Len(new_args)
    THEN [ret |-> output, raised |-> "none", count |-> count]
    ELSE IF isStr(new_args[i]) THEN failed("AttributeError", count)
    ELSE IF ~isSequence(new_args[i]) THEN failed("TypeError", count)
    ELSE LET g == group_B(new_args[i], labels, rs, ne, n, order, count)
         IN  IF g.raised # "none" THEN failed(g.raised, g.count)
             ELSE loop_B(new_args, i + 1, labels, g.ranges, ne, n, order,
                         g.count, Append(output, g.entry))

mode_B(a, ne, n, order, count) ==
    LET labels == SelectSeq(a, isStr)
        rs     == SelectSeq(a, _is_range)
        k      == Len(rs) + Len(labels)
        rest   == IF k > 0 THEN DropLast(a, k) ELSE a
    IN  IF rest = <<>> THEN failed("IndexError", count)
        ELSE loop_B(IF isSequence(rest[1]) THEN rest ELSE <<List(rest)>>,
                    1, labels, rs, ne, n, order, count, <<>>)

_check_arguments(a, ne, n, order, count) ==
    IF a = <<>> THEN [ret |-> <<>>, raised |-> "none", count |-> count]
    ELSE IF \A i \in 1..Len(Take(a, ne)) : isExpr(a[i])
    THEN mode_A(a, ne, n, order, count)
    ELSE mode_B(a, ne, n, order, count)

-----------------------------------------------------------------------------
(* _unpack_args called with the default matrices=False                     *)

_unpack_args(a) ==
    LET rs     == SelectSeq(a, _is_range)
        labels == SelectSeq(a, isStr)
        label0 == IF labels = <<>> THEN "" ELSE labels[1].name
        exprs  == select_exprs(a)
        label  == IF label0 = ""
                  THEN (IF Len(exprs) = 1 THEN str(exprs[1])
                        ELSE str(PyTuple(exprs)))
                  ELSE label0
    IN  <<List(exprs), List(rs), Str(label)>>

-----------------------------------------------------------------------------
(* The values the calls are made with *)

x == Symbol("x")
y == Symbol("y")
z == Symbol("z")

\* a dummy the caller created before the call
d0 == Dummy(0)

range_x == Tuple(<<x, Number("-2"), Number("2")>>)
range_y == Tuple(<<y, Number("-3"), Number("3")>>)
range_z == Tuple(<<z, Number("-1"), Number("1")>>)
range_d == Tuple(<<d0, Number("-1"), Number("1")>>)

\* the symbols an expression may depend on
AllSymbols == {x, y, d0}

\* the symbols of the arguments of _check_arguments
ArgSymbols == {x, y}

AllRanges == {range_x, range_y, range_z, range_d}

SeqsUpTo(S, n) == UNION {[1..k -> S] : k \in 0..n}

NoArgs == <<>>

cos_x == Expr("cos(x)", {x})
sin_x == Expr("sin(x)", {x})
x_y == Expr("x*y", {x, y})

ExprItems == {cos_x, sin_x, x_y}

RangeItems == {range_x, range_y}

StrItems == {Str("lbl"), Str("name")}

Items == ExprItems \cup RangeItems \cup StrItems

\* calls whose arguments are expressions, ranges and strings in any order
FlatCalls == SeqsUpTo(Items, MaxArgs)

RECURSIVE GroupCallsOf(_)

\* calls of at most b items in all: groups of items, then ranges and strings
GroupCallsOf(b) ==
    SeqsUpTo(RangeItems \cup StrItems, b) \cup
    UNION {{<<Tuple(g)>> \o rest : g \in [1..k -> Items],
                                   rest \in GroupCallsOf(b - k)} : k \in 1..b}

GroupCalls == {a \in GroupCallsOf(MaxLeaves) : a # <<>> /\ a[1].kind = "Tuple"}

\* tuples that are no range: two elements, or a bound that is no number
pair_x == Tuple(<<x, Number("-2")>>)
open_x == Tuple(<<x, Number("-2"), y>>)

\* calls of expressions followed by a tuple that is no range, then by ranges
\* and strings
MalformedCalls ==
    {e \o <<t>> \o r : e \in [1..1 -> ExprItems] \cup [1..2 -> ExprItems],
                        t \in {pair_x, open_x},
                        r \in SeqsUpTo(RangeItems \cup StrItems, 1)}

\* tuples of three expressions: an expression and two numbers, or three
\* numbers
cos_1_2 == Tuple(<<cos_x, Number("1"), Number("2")>>)
one_m2_2 == Tuple(<<Number("1"), Number("-2"), Number("2")>>)

ExprTriples == {cos_1_2, one_m2_2}

\* calls with a tuple of three expressions among the items
ExprTripleCalls ==
    {e \o <<t>> \o r : e \in SeqsUpTo(ExprItems, 1),
                        t \in ExprTriples,
                        r \in SeqsUpTo(RangeItems \cup StrItems, 1)}

-----------------------------------------------------------------------------
(* spb/ccomplex/complex.py: _build_series and _plot_complex. A dict is     *)
(* kept as the sequence of its items <<key, value>> in insertion order.    *)

\* Python's None
None == [kind |-> "NoneType", name |-> "None", dummy_index |-> 0, fs |-> {},
         elems |-> <<>>]

\* key in kw
haskey(kw, key) == \E i \in 1..Len(kw) : kw[i][1] = key

\* kw.get(key, default)
get(kw, key, default) ==
    IF haskey(kw, key)
    THEN kw[CHOOSE i \in 1..Len(kw) : kw[i][1] = key][2]
    ELSE default

\* the dict after kw.pop(key, default)
popped(kw, key) == SelectSeq(kw, LAMBDA it : it[1] # key)

\* the dict after kw[key] = value
setitem(kw, key, value) ==
    IF haskey(kw, key)
    THEN [i \in 1..Len(kw) |->
             IF kw[i][1] = key THEN <<key, value>> ELSE kw[i]]
    ELSE Append(kw, <<key, value>>)

\* the dict after kw.setdefault(key, value)
setdefault(kw, key, value) ==
    IF haskey(kw, key) THEN kw ELSE Append(kw, <<key, value>>)

\* the values of cfg["complex"]
cfg_complex_modules == "cfg[complex][modules]"
cfg_complex_coloring == "cfg[complex][coloring]"

\* a label template with one %s, as the text before and after it
Template(pre, post) == [pre |-> pre, post |-> post]

\* template % label
format(template, label) == template.pre \o label \o template.post

\* the label templates of the projections
mapping(key) ==
    CASE key = "real"   -> Template("Re(", ")")
      [] key = "imag"   -> Template("Im(", ")")
      [] key = "abs"    -> Template("Abs(", ")")
      [] key = "absarg" -> Template("Arg(", ")")
      [] key = "arg"    -> Template("Arg(", ")")

\* complex(a) of the sympy numbers in use
complex(a) ==
    CASE a = Number("-2")       -> [real |-> -2, imag |-> 0]
      [] a = Number("2")        -> [real |-> 2, imag |-> 0]
      [] a = Number("-2 + 2*I") -> [real |-> -2, imag |-> 2]
      [] a = Number("2 + 2*I")  -> [real |-> 2, imag |-> 2]
      [] a = Number("-2 - 2*I") -> [real |-> -2, imag |-> -2]

\* the ranges with complex bounds
complex_ranges(rs) ==
    [i \in 1..Len(rs) |->
        <<rs[i].elems[1], complex(rs[i].elems[2]), complex(rs[i].elems[3])>>]

\* an object of a series class: the class, the positional arguments and the
\* keyword arguments of its construction
Series(cls, expr, rs, label, kw) ==
    [cls |-> cls, expr |-> expr, ranges |-> rs, label |-> label, kw |-> kw]

\* the flags left out of a call are False
default_flag_false(key) == FALSE

\* the value of a flag that the call leaves out
default_flag(key) == key = "absarg"

\* the projections in alphabetical order
flag_order_sorted == <<"abs", "absarg", "arg", "imag", "real">>

\* the order of the add_series calls
flag_order == <<"absarg", "real", "imag", "abs", "arg">>

\* the range is a line: the imaginary parts of its bounds are equal
is_line(rs) == rs[1][2].imag = rs[1][3].imag

\* the template of every projection is mapping[key]
lbl_wrapper_mapping(key, line) == mapping(key)

\* the label template of a series
lbl_wrapper(key, line) ==
    IF ~line /\ key = "absarg" THEN Template("", "") ELSE mapping(key)

\* the configured coloring replaces the one of the call
with_coloring_overwritten(kw) == setitem(kw, "coloring", cfg_complex_coloring)

\* kw.setdefault("coloring", cfg["complex"]["coloring"])
with_coloring(kw) == setdefault(kw, "coloring", cfg_complex_coloring)

\* add_series(flag, key) of either kind of range
add_series(series, flag, key, line, expr, rs, label, kw) ==
    IF flag
    THEN Append(series,
                Series(IF line THEN "LineOver1DRangeSeries"
                       ELSE "ComplexSurfaceBaseSeries",
                       expr, rs, format(lbl_wrapper(key, line), label),
                       setitem(setitem(kw, key, TRUE), "return", key)))
    ELSE series

RECURSIVE add_all(_, _, _, _, _, _, _, _)

\* the add_series calls for the projections of keys, in order
add_all(series, keys, flags, line, expr, rs, label, kw) ==
    IF keys = <<>> THEN series
    ELSE add_all(add_series(series, flags[Head(keys)], Head(keys), line,
                            expr, rs, label, kw),
                 Tail(keys), flags, line, expr, rs, label, kw)

\* the body of the loop over new_args for the argument tuple a: a symbolic
\* expression is not callable, so the TypeError is not raised
series_of(series, a, kw0) ==
    LET expr    == a[1]
        rs      == complex_ranges(SubSeq(a, 2, Len(a) - 2))
        label   == IF a[Len(a) - 1] = None THEN str(expr)
                   ELSE a[Len(a) - 1].name
        rend_kw == a[Len(a)]
        kw1     == setitem(kw0, "rendering_kw", rend_kw)
        flags   == [key \in {"absarg", "real", "imag", "abs", "arg"} |->
                       get(kw1, key, default_flag(key))]
        kw2     == popped(popped(popped(popped(popped(kw1,
                       "absarg"), "real"), "imag"), "abs"), "arg")
        line    == is_line(rs)
        kw      == IF line THEN kw2 ELSE with_coloring(kw2)
    IN  add_all(series, flag_order, flags, line, expr, rs, label, kw)

RECURSIVE build_loop(_, _, _)

\* for a in new_args
build_loop(series, new_args, kw) ==
    IF new_args = <<>> THEN series
    ELSE build_loop(series_of(series, Head(new_args), kw), Tail(new_args), kw)

\* _build_series from the list new_args of argument tuples
\* (expr, range, label, rendering_kw) on, for a call without the keywords
\* label, rendering_kw and wireframe
_build_series(new_args, kw) ==
    build_loop(<<>>, new_args,
               setdefault(kw, "modules", cfg_complex_modules))

\* what decides the axis labels of a series: s.is_parametric,
\* s.is_domain_coloring, s.is_3Dsurface, or none of them
SeriesKinds == {"parametric", "domain_coloring", "3Dsurface", "other"}

\* all(s.is_parametric for s in series)
all_parametric(series, kinds) ==
    \A i \in 1..Len(series) : kinds[i] = "parametric"

\* kw[key] = value if kw.get(key, None) is None
label_default(kw, key, value) ==
    IF get(kw, key, None) = None THEN setitem(kw, key, value) ELSE kw

\* _set_axis_labels(series, kwargs): the kwargs after the call and the
\* exception it raises; kinds[i] tells the attributes of series[i], and
\* aspect whether some series asks for an equal aspect (none does in an
\* empty list)
_set_axis_labels(series, kinds, aspect, kw) ==
    LET labelled ==
          IF all_parametric(series, kinds)
          THEN [kw |-> label_default(label_default(kw, "xlabel", Str("Real")),
                                     "ylabel", Str("Abs")),
                raised |-> "none"]
          ELSE IF \A i \in 1..Len(series) : kinds[i] # "other"
          THEN LET kxy == label_default(label_default(kw, "xlabel", Str("Re")),
                                        "ylabel", Str("Im"))
               IN  [kw |-> IF \E i \in 1..Len(series) :
                                  kinds[i] = "domain_coloring"
                           THEN label_default(kxy, "zlabel", Str("Abs"))
                           ELSE kxy,
                    raised |-> "none"]
          ELSE IF series = <<>>
          THEN [kw |-> kw, raised |-> "IndexError"]
          ELSE LET var == series[1].ranges[1][1]
                   kx  == label_default(kw, "xlabel", Str(var.name))
               IN  [kw |-> label_default(kx, "ylabel",
                               Str("f(" \o get(kx, "xlabel", None).name
                                        \o ")")),
                    raised |-> "none"]
    IN  IF labelled.raised = "none" /\ aspect
        THEN [labelled EXCEPT !.kw = setdefault(labelled.kw, "aspect", "equal")]
        ELSE labelled

\* an empty list of series is an error
no_series_fatal(series) ==
    [warnings |-> <<>>,
     raised |-> IF Len(series) = 0 THEN "ValueError" ELSE "none"]

\* if len(series) == 0: warnings.warn(...)
no_series(series) ==
    [warnings |-> IF Len(series) = 0
                  THEN <<"No series found. Check your keyword arguments.">>
                  ELSE <<>>,
     raised |-> "none"]

\* _plot_complex with pcl=False, from the list new_args on: the warnings
\* issued, the exception raised and the arguments of _instantiate_backend
_plot_complex(new_args, kinds, aspect, kw) ==
    LET series == _build_series(new_args, kw)
        warned == no_series(series).warnings
        res    == IF no_series(series).raised # "none"
                  THEN [kw |-> kw, raised |-> no_series(series).raised]
                  ELSE _set_axis_labels(series, kinds, aspect, kw)
        Backend == IF \E i \in 1..Len(series) : kinds[i] = "3Dsurface"
                   THEN get(res.kw, "backend", "THREE_D_B")
                   ELSE get(res.kw, "backend", "TWO_D_B")
    IN  [warnings |-> warned,
         raised |-> res.raised,
         ret |-> IF res.raised = "none"
                 THEN <<[Backend |-> Backend, series |-> series,
                         kwargs |-> res.kw]>>
                 ELSE <<>>]

\* the expressions, ranges and argument tuples of the calls
cos_z == Expr("cos(z)", {z})
exp_z == Expr("exp(z)", {z})
real_range == Tuple(<<z, Number("-2"), Number("2")>>)
shifted_range == Tuple(<<z, Number("-2 + 2*I"), Number("2 + 2*I")>>)
domain_range == Tuple(<<z, Number("-2 - 2*I"), Number("2 + 2*I")>>)

ComplexArgs == {<<cos_z, real_range, None, None>>,
                <<cos_z, domain_range, Str("lbl"), None>>,
                <<exp_z, shifted_range, Str("lbl"), None>>,
                <<exp_z, domain_range, None, None>>}

\* the keyword arguments that differ from the defaults
KwItems == {<<"absarg", FALSE>>, <<"real", TRUE>>, <<"imag", TRUE>>,
            <<"abs", TRUE>>, <<"arg", TRUE>>, <<"coloring", "b">>}

\* the keyword arguments of a call, in the order they are passed
KwargsUpTo(n) ==
    {kw \in SeqsUpTo(KwItems, n) :
        \A i, j \in 1..Len(kw) : i # j => kw[i][1] # kw[j][1]}

-----------------------------------------------------------------------------
(* spb/utils.py: ij2k and get_vertices_indices. A 2D numpy array is its    *)
(* shape and its entries, indexed from 0.                                  *)

\* largest number of rows and of columns of a grid
MaxRows == 3
MaxCols == 3

ndarray(rows, cols, f) == [shape |-> <<rows, cols>>, data |-> f]

\* a.flatten(): the entries row after row
flatten(a) ==
    [k \in 0..(a.shape[1] * a.shape[2] - 1) |->
        a.data[<<k \div a.shape[2], k % a.shape[2]>>]]

\* the index of column i, row j, in a column after column numbering
ij2k_by_columns(cols, i, j) == cols * j + i

\* ij2k(cols, i, j)
ij2k(cols, i, j) == cols * i + j

\* the first triangle appended for the cell whose last corner is (i, j)
first_triangle(cols, i, j) ==
    <<ij2k(cols, i, j), ij2k(cols, i - 1, j), ij2k(cols, i, j - 1)>>

\* the second triangle with its last two vertices exchanged
second_triangle_flipped(cols, i, j) ==
    <<ij2k(cols, i - 1, j - 1), ij2k(cols, i - 1, j), ij2k(cols, i, j - 1)>>

\* the second triangle appended for the cell whose last corner is (i, j)
second_triangle(cols, i, j) ==
    <<ij2k(cols, i - 1, j - 1), ij2k(cols, i, j - 1), ij2k(cols, i - 1, j)>>

\* the two triangles of a cell, the second one first
cell_faces_swapped(cols, i, j) ==
    <<second_triangle(cols, i, j), first_triangle(cols, i, j)>>

\* the two triangles of the cell whose last corner is (i, j)
cell_faces(cols, i, j) ==
    <<first_triangle(cols, i, j), second_triangle(cols, i, j)>>

RECURSIVE loop_j(_, _, _, _)

\* for j in range(1, cols), from j on
loop_j(indices, cols, i, j) ==
    IF j >= cols THEN indices
    ELSE loop_j(indices \o cell_faces(cols, i, j), cols, i, j + 1)

RECURSIVE loop_i(_, _, _, _)

\* for i in range(1, rows), from i on
loop_i(indices, rows, cols, i) ==
    IF i >= rows THEN indices
    ELSE loop_i(loop_j(indices, cols, i, 1), rows, cols, i + 1)

\* get_vertices_indices(x, y, z): vertices is the array of the rows
\* (x[k], y[k], z[k]) of the flattened grids
get_vertices_indices(xx, yy, zz) ==
    LET rows == xx.shape[1]
        cols == xx.shape[2]
        vertices == [k \in 0..(rows * cols - 1) |->
                        <<flatten(xx)[k], flatten(yy)[k], flatten(zz)[k]>>]
    IN  <<vertices, loop_i(<<>>, rows, cols, 1)>>

\* the cells of a grid
Cells(rows, cols) == (0..(rows - 1)) \X (0..(cols - 1))

\* the grids of a call: x and y as np.meshgrid gives them, z a function of
\* the cell
XGrids(rows, cols) ==
    {ndarray(rows, cols, [c \in Cells(rows, cols) |-> c[2]]),
     ndarray(rows, cols, [c \in Cells(rows, cols) |-> 2 * c[2] - 1])}

YGrids(rows, cols) ==
    {ndarray(rows, cols, [c \in Cells(rows, cols) |-> c[1]])}

ZGrids(rows, cols) ==
    {ndarray(rows, cols, [c \in Cells(rows, cols) |-> c[1] + c[2]]),
     ndarray(rows, cols, [c \in Cells(rows, cols) |-> c[1] * c[2]]),
     ndarray(rows, cols, [c \in Cells(rows, cols) |-> 10 * c[1] - c[2]])}

-----------------------------------------------------------------------------
(* spb/utils.py: get_seeds_points. A 3D numpy array is its shape and its   *)
(* entries, indexed from 0; a plane of it is a 2D array.                   *)

\* largest number of samples along an axis of the sampling box
MaxSamples == 2

\* arr[:, idx, :] for axis 2, arr[idx, :, :] for axis 1, arr[:, :, idx] for
\* axis 3 of a 3D array
plane(arr, axis, idx) ==
    LET n == arr.shape
    IN  CASE axis = 1 ->
               ndarray(n[2], n[3],
                       [c \in Cells(n[2], n[3]) |->
                           arr.data[<<idx, c[1], c[2]>>]])
          [] axis = 2 ->
               ndarray(n[1], n[3],
                       [c \in Cells(n[1], n[3]) |->
                           arr.data[<<c[1], idx, c[2]>>]])
          [] axis = 3 ->
               ndarray(n[1], n[2],
                       [c \in Cells(n[1], n[2]) |->
                           arr.data[<<c[1], c[2], idx>>]])

\* the index -1 taken for the first entry
last_index_first(n) == 0

\* the index -1 of an axis of n entries
last_index(n) == n - 1

\* the test of sign "g" that lets zero through
check_g_or_zero(v) == v >= 0

\* check["g"]
check_g(v) == v > 0

\* check["l"]
check_l(v) == v < 0

\* a row of the array np.where builds: the coordinates, or NaN three times
where_row(cond, p) == [nan |-> ~cond, p |-> p]

\* find_points_at_input_vectors(vf_plane, coords, i, sign), vf_plane[i]
\* being the plane vf_i and coords the planes cx, cy, cz; coordinates are
\* numbers, never NaN
find_points_at_input_vectors(vf_i, cx, cy, cz, sign) ==
    LET n   == vf_i.shape[1] * vf_i.shape[2]
        tmp == [k \in 1..n |->
                   where_row(IF sign = "g" THEN check_g(flatten(vf_i)[k - 1])
                             ELSE check_l(flatten(vf_i)[k - 1]),
                             <<flatten(cx)[k - 1], flatten(cy)[k - 1],
                               flatten(cz)[k - 1]>>)]
        kept == SelectSeq(tmp, LAMBDA row : ~row.nan)
    IN  [k \in 1..Len(kept) |-> kept[k].p]

\* the points of the two planes at the ends of an axis: the min plane with
\* sign "g", then the max plane with sign "l"
points_of_axis(gx, gy, gz, comp, axis) ==
    LET last == last_index(comp.shape[axis])
    IN  find_points_at_input_vectors(plane(comp, axis, 0),
                                     plane(gx, axis, 0), plane(gy, axis, 0),
                                     plane(gz, axis, 0), "g")
        \o find_points_at_input_vectors(plane(comp, axis, last),
                                        plane(gx, axis, last),
                                        plane(gy, axis, last),
                                        plane(gz, axis, last), "l")

\* get_seeds_points(xx, yy, zz, uu, vv, ww): the x planes are those of the
\* second index, the y planes those of the first, the z planes those of
\* the third
get_seeds_points(gx, gy, gz, uu, vv, ww) ==
    points_of_axis(gx, gy, gz, uu, 2)
    \o points_of_axis(gx, gy, gz, vv, 1)
    \o points_of_axis(gx, gy, gz, ww, 3)

ndarray3(shape, f) == [shape |-> shape, data |-> f]

\* the index triples of a 3D array
Cells3(shape) ==
    (0..(shape[1] - 1)) \X (0..(shape[2] - 1)) \X (0..(shape[3] - 1))

\* the coordinate arrays np.meshgrid(x, y, z) of x[b] = b, y[a] = 10 + a,
\* z[c] = 20 + c
meshgrid(shape) ==
    <<ndarray3(shape, [c \in Cells3(shape) |-> c[2]]),
      ndarray3(shape, [c \in Cells3(shape) |-> 10 + c[1]]),
      ndarray3(shape, [c \in Cells3(shape) |-> 20 + c[3]])>>

\* the components of the fields of the calls, as functions of the index
\* along the component's own axis (k of n) and of the index triple c
Component(kind, k, n, c) ==
    CASE kind = "one"       -> 1
      [] kind = "minus_one" -> -1
      [] kind = "zero"      -> 0
      [] kind = "inward"    -> IF k = 0 THEN 1 ELSE IF k = n - 1 THEN -1
                               ELSE 0
      [] kind = "outward"   -> IF k = 0 THEN -1 ELSE IF k = n - 1 THEN 1
                               ELSE 0
      [] kind = "mixed"     -> ((c[1] + 2 * c[2] + c[3]) % 3) - 1

ComponentKinds == {"one", "minus_one", "zero", "inward", "outward", "mixed"}

\* a component array of the field over the axis-th index
component_array(shape, kind, axis) ==
    ndarray3(shape, [c \in Cells3(shape) |->
                        Component(kind, c[axis], shape[axis], c)])

-----------------------------------------------------------------------------
(* The Series objects of spb.series, as the specification and the tests of *)
(* spb/tests/test_series.py describe them: a series holds its expressions, *)
(* its range, its discretization, the binding of the parameter u and the   *)
(* arrays it evaluated last.                                               *)

\* largest number of sample points of a series
MaxPoints == 4

RECURSIVE Pow2(_)

\* 2 ** e
Pow2(e) == IF e = 0 THEN 1 ELSE 2 * Pow2(e - 1)

RECURSIVE Log2(_)

\* log2(v) of a power of two
Log2(v) == IF v <= 1 THEN 0 ELSE 1 + Log2(v \div 2)

\* np.linspace(start, end, n)
linspace(start, end, n) ==
    [i \in 1..n |-> start + ((i - 1) * (end - start)) \div (n - 1)]

\* the sample points are equally spaced whatever the scale
discretize_linear(start, end, n, scale) == linspace(start, end, n)

\* the n sample points of an axis: equally spaced, or with equally spaced
\* logarithms
discretize(start, end, n, scale) ==
    IF scale = "log"
    THEN [i \in 1..n |-> Pow2(linspace(Log2(start), Log2(end), n)[i])]
    ELSE linspace(start, end, n)

\* an expression in x: x, x**2 or the number c, times the parameter u or not
SeriesExpr(base, c, times_u) == [base |-> base, c |-> c, times_u |-> times_u]

\* the parameter is taken as 0 when the expression is evaluated
factor_unbound(e, u) == IF e.times_u THEN 0 ELSE 1

\* the value of the factor u of an expression under the binding u
factor(e, u) == IF e.times_u THEN u ELSE 1

\* the result of the function of a constant expression is left a scalar
broadcast_scalar(v, n) == v

\* the array of n entries that a scalar result is turned into
broadcast(v, n) == IF Len(v) = 1 THEN [i \in 1..n |-> v[1]] ELSE v

\* the compiled numeric function of e applied to the array xs: an array for
\* an expression in x, a scalar for a number
lambdify(e, u, xs) ==
    CASE e.base = "x"     -> [i \in 1..Len(xs) |-> xs[i] * factor(e, u)]
      [] e.base = "x**2"  -> [i \in 1..Len(xs) |-> xs[i] * xs[i] * factor(e, u)]
      [] e.base = "const" -> <<e.c * factor(e, u)>>

\* the real part, the imaginary part or the absolute value of real numbers
projection(return, v) ==
    CASE return = "real" -> v
      [] return = "imag" -> [i \in 1..Len(v) |-> 0]
      [] return = "abs"  -> [i \in 1..Len(v) |-> IF v[i] < 0 THEN 0 - v[i]
                                                 ELSE v[i]]

\* the arrays of a series under the binding u: (x, y) for a line,
\* (x, y, param) for a parametric line, (x, projection) for a complex line
evaluate(s, u) ==
    LET xs == discretize(s.range[1], s.range[2], s.n, s.scale)
        f(k) == broadcast(lambdify(s.exprs[k], u, xs), Len(xs))
    IN  CASE s.kind = "line"       -> <<xs, f(1)>>
          [] s.kind = "parametric" -> <<f(1), f(2), xs>>
          [] s.kind = "complex"    -> <<xs, projection(s.return, f(1))>>

\* a series after construction; an interactive series evaluates its arrays
\* with the binding it is constructed with
NewSeries(kind, interactive, exprs, range, n, scale, return, u) ==
    LET s == [kind |-> kind, interactive |-> interactive, exprs |-> exprs,
              range |-> range, n |-> n, scale |-> scale, return |-> return,
              u |-> u, fresh |-> FALSE, cache |-> <<>>]
    IN  IF interactive THEN [s EXCEPT !.fresh = TRUE, !.cache = evaluate(s, u)]
        ELSE s

\* the series hands its arrays over and keeps none
cached_consumed(s, data) == [s EXCEPT !.fresh = TRUE, !.cache = <<>>]

\* the series after get_data returned data
cached(s, data) == [s EXCEPT !.fresh = TRUE, !.cache = data]

\* get_data(): the arrays returned and the series afterwards
get_data(s) ==
    LET data == IF s.fresh THEN s.cache ELSE evaluate(s, s.u)
    IN  [data |-> data, series |-> cached(s, data)]

\* update_data(params): the series with the binding replaced by the one
\* of params, if params has one, and its arrays evaluated again
update_data(s, params) ==
    LET u == IF params = <<>> THEN s.u ELSE params[1]
    IN  [s EXCEPT !.u = u, !.fresh = TRUE, !.cache = evaluate(s, u)]

\* the expressions, ranges and bindings of the series
SeriesExprs(times_u) ==
    {SeriesExpr("x", 0, times_u), SeriesExpr("x**2", 0, times_u),
     SeriesExpr("const", 1, times_u), SeriesExpr("const", -3, times_u)}

SeriesRanges == {<<-5, 7>>, <<4, 16384>>}

Bindings == {<<>>, <<1>>, <<2>>}

\* the sample points of the range are whole numbers on the scale
ExactSamples(range, n, scale) ==
    /\ (range[2] - range[1]) % (n - 1) = 0
    /\ scale = "log" =>
          /\ range[1] > 0
          /\ Pow2(Log2(range[1])) = range[1]
          /\ Pow2(Log2(range[2])) = range[2]
          /\ (Log2(range[2]) - Log2(range[1])) % (n - 1) = 0

\* the number of expressions of a kind of series and the projections it
\* can return
SeriesShapes ==
    {<<"line", 1, "none">>, <<"parametric", 2, "none">>,
     <<"complex", 1, "real">>, <<"complex", 1, "imag">>,
     <<"complex", 1, "abs">>}

\* the series of the behaviours, as constructed: an interactive series is
\* constructed with u bound to 1, and only its expressions may hold u
AllSeries ==
    UNION {
        {NewSeries(shape[1], interactive, exprs, range, n, scale, shape[3], 1) :
            exprs \in UNION {[1..shape[2] -> SeriesExprs(t)] :
                             t \in IF interactive THEN BOOLEAN ELSE {FALSE}}} :
        shape \in SeriesShapes,
        interactive \in BOOLEAN,
        range \in SeriesRanges,
        n \in 2..MaxPoints,
        scale \in {"linear", "log"}}

-----------------------------------------------------------------------------
(* spb/backends/plotgrid.py: _nrows_ncols and the first mode of plotgrid.  *)
(* The mapping from the cells of the grid to the plots is the sequence of  *)
(* its items <<<<i, j>>, plot>> in insertion order.                        *)

\* largest number of plots of a call, and largest nr and nc passed
MaxPlots == 3
MaxGrid == 3

\* int(np.ceil(a / b)) for a >= 0, b > 0
ceil_div(a, b) == (a + b - 1) \div b

RECURSIVE _nrows_ncols(_, _, _)

_nrows_ncols(nr, nc, nplots) ==
    IF (nc <= 0) /\ (nr <= 0) THEN <<nplots, 1>>
    ELSE IF nr <= 0 THEN <<ceil_div(nplots, nc), nc>>
    ELSE IF nc <= 0 THEN <<nr, ceil_div(nplots, nr)>>
    ELSE IF nr * nc < nplots THEN _nrows_ncols(nr + 1, nc, nplots)
    ELSE <<nr, nc>>

RECURSIVE fill_row(_, _, _, _, _, _)

\* for j in range(nc): mapping[gs[i, j]] = args[c]; c += 1
fill_row(a, i, j, nc, c, gs_map) ==
    IF j >= nc THEN [mapping |-> gs_map, c |-> c, raised |-> "none"]
    ELSE IF c >= Len(a)
    THEN [mapping |-> gs_map, c |-> c, raised |-> "IndexError"]
    ELSE fill_row(a, i, j + 1, nc, c + 1,
                  Append(gs_map, <<<<i, j>>, a[c + 1]>>))

RECURSIVE fill_grid(_, _, _, _, _, _)

\* for i in range(nr): for j in range(nc): ...
fill_grid(a, i, nr, nc, c, gs_map) ==
    IF i >= nr THEN [mapping |-> gs_map, c |-> c, raised |-> "none"]
    ELSE LET row == fill_row(a, i, 0, nc, c, gs_map)
         IN  IF row.raised # "none" THEN row
             ELSE fill_grid(a, i + 1, nr, nc, row.c, row.mapping)

\* plotgrid(*args, **kwargs) without gs: the mapping the figure is made of
plotgrid(a, kw) ==
    IF Len(a) = 0 THEN [mapping |-> <<>>, c |-> 0, raised |-> "none"]
    ELSE LET g == _nrows_ncols(get(kw, "nr", -1), get(kw, "nc", 1), Len(a))
         IN  fill_grid(a, 0, g[1], g[2], 0, <<>>)

\* the k-th plot of a call
PlotObj(k) == [kind |-> "Plot", name |-> "plot", dummy_index |-> k,
               fs |-> {}, elems |-> <<>>]

\* the plots of a call of n plots
Plots(n) == [k \in 1..n |-> PlotObj(k)]

\* the keyword arguments nr and nc of a call, each passed or left out
GridKwargs ==
    {<<>>} \cup
    {<<<<"nr", r>>>> : r \in -1..MaxGrid} \cup
    {<<<<"nc", c>>>> : c \in -1..MaxGrid} \cup
    {<<<<"nr", r>>, <<"nc", c>>>> : r \in -1..MaxGrid, c \in -1..MaxGrid}

-----------------------------------------------------------------------------
(* State machine. A behaviour is one call of a function of utils.py: the   *)
(* initial state holds the arguments of the call (pc = "call") and the     *)
(* counter behind Dummy(), which earlier calls of the process may have     *)
(* advanced; the step runs the function to its return or its exception     *)
(* (pc = "done"). `ranges` is the caller's list object, ranges0 its        *)
(* contents before the call.                                               *)

InitCreateRanges ==
    /\ pc = "call"
    /\ fn = "_create_ranges"
    /\ free_symbols \in SUBSET AllSymbols
    /\ ranges0 \in SeqsUpTo(AllRanges, MaxRanges)
    /\ ranges = ranges0
    /\ npar \in 1..MaxNpar
    /\ args = NoArgs
    /\ nexpr = 1
    /\ ret = <<>>
    /\ raised = "none"
    /\ Dummy_count \in 1..MaxDummy
    /\ kwargs = <<>>
    /\ warnings = <<>>

InitCheckArguments ==
    /\ pc = "call"
    /\ fn = "_check_arguments"
    /\ args \in FlatCalls \cup GroupCalls \cup MalformedCalls \cup
               ExprTripleCalls
    /\ nexpr \in 1..MaxNexpr
    /\ npar \in 1..MaxArity
    /\ free_symbols = {}
    /\ ranges0 = <<>>
    /\ ranges = <<>>
    /\ ret = <<>>
    /\ raised = "none"
    /\ Dummy_count = 1
    /\ kwargs = <<>>
    /\ warnings = <<>>

InitUnpackArgs ==
    /\ pc = "call"
    /\ fn = "_unpack_args"
    /\ args \in FlatCalls \cup ExprTripleCalls
    /\ nexpr = 1
    /\ npar = 1
    /\ free_symbols = {}
    /\ ranges0 = <<>>
    /\ ranges = <<>>
    /\ ret = <<>>
    /\ raised = "none"
    /\ Dummy_count = 1
    /\ kwargs = <<>>
    /\ warnings = <<>>

NoCheckArguments ==
    /\ nexpr = 1
    /\ npar = 1
    /\ free_symbols = {}
    /\ ranges0 = <<>>
    /\ ranges = <<>>
    /\ Dummy_count = 1

InitBuildSeries ==
    /\ pc = "call"
    /\ fn = "_build_series"
    /\ args \in SeqsUpTo(ComplexArgs, MaxExprs)
    /\ kwargs \in KwargsUpTo(MaxKwargs)
    /\ ret = <<>>
    /\ raised = "none"
    /\ warnings = <<>>
    /\ NoCheckArguments

InitPlotComplex ==
    /\ pc = "call"
    /\ fn = "_plot_complex"
    /\ args \in [1..1 -> ComplexArgs]
    /\ kwargs \in KwargsUpTo(MaxPlotKwargs)
    /\ ret = <<>>
    /\ raised = "none"
    /\ warnings = <<>>
    /\ NoCheckArguments

InitGetVerticesIndices ==
    /\ pc = "call"
    /\ fn = "get_vertices_indices"
    /\ \E rows \in 1..MaxRows, cols \in 1..MaxCols :
          args \in {<<gx, gy, gz>> : gx \in XGrids(rows, cols),
                                     gy \in YGrids(rows, cols),
                                     gz \in ZGrids(rows, cols)}
    /\ kwargs = <<>>
    /\ ret = <<>>
    /\ raised = "none"
    /\ warnings = <<>>
    /\ NoCheckArguments

InitGetSeedsPoints ==
    /\ pc = "call"
    /\ fn = "get_seeds_points"
    /\ \E shape \in (1..MaxSamples) \X (1..MaxSamples) \X (1..MaxSamples),
          ku \in ComponentKinds, kv \in ComponentKinds,
          kw \in ComponentKinds :
          args = meshgrid(shape) \o <<component_array(shape, ku, 2),
                                       component_array(shape, kv, 1),
                                       component_array(shape, kw, 3)>>
    /\ kwargs = <<>>
    /\ ret = <<>>
    /\ raised = "none"
    /\ warnings = <<>>
    /\ NoCheckArguments

\* a series right after its construction
InitSeries ==
    /\ pc = "call"
    /\ fn = "Series"
    /\ \E s \in AllSeries :
          /\ ExactSamples(s.range, s.n, s.scale)
          /\ args = <<s>>
    /\ kwargs = <<>>
    /\ ret = <<>>
    /\ raised = "none"
    /\ warnings = <<>>
    /\ NoCheckArguments

InitPlotGrid ==
    /\ pc = "call"
    /\ fn = "plotgrid"
    /\ \E n \in 0..MaxPlots : args = Plots(n)
    /\ kwargs \in GridKwargs
    /\ ret = <<>>
    /\ raised = "none"
    /\ warnings = <<>>
    /\ NoCheckArguments

Init ==
    \/ InitPlotGrid
    \/ InitSeries
    \/ InitGetSeedsPoints
    \/ InitGetVerticesIndices
    \/ InitCreateRanges
    \/ InitCheckArguments
    \/ InitUnpackArgs
    \/ InitBuildSeries
    \/ InitPlotComplex

\* _create_ranges(free_symbols, ranges, npar)
CreateRanges ==
    /\ pc = "call"
    /\ fn = "_create_ranges"
    /\ \E order \in Perms(AllSymbols) :
        LET res == _create_ranges(free_symbols, ranges, npar, order,
                                  Dummy_count)
        IN  /\ ranges' = res.ranges
            /\ raised' = res.raised
            /\ ret' = IF res.raised = "none" THEN res.ranges ELSE <<>>
            /\ Dummy_count' = res.count
    /\ pc' = "done"
    /\ UNCHANGED <<fn, free_symbols, ranges0, args, nexpr, npar, kwargs,
                   warnings>>

\* _check_arguments(args, nexpr, npar)
CheckArguments ==
    /\ pc = "call"
    /\ fn = "_check_arguments"
    /\ \E order \in Perms(ArgSymbols) :
        LET res == _check_arguments(args, nexpr, npar, order, Dummy_count)
        IN  /\ ret' = res.ret
            /\ raised' = res.raised
            /\ Dummy_count' = res.count
    /\ pc' = "done"
    /\ UNCHANGED <<fn, free_symbols, ranges0, ranges, args, nexpr, npar,
                   kwargs, warnings>>

\* _unpack_args applied to args
UnpackArgs ==
    /\ pc = "call"
    /\ fn = "_unpack_args"
    /\ ret' = _unpack_args(args)
    /\ pc' = "done"
    /\ UNCHANGED <<fn, free_symbols, ranges0, ranges, args, nexpr, npar,
                   raised, Dummy_count, kwargs, warnings>>

\* _build_series, from the argument tuples args on
BuildSeries ==
    /\ pc = "call"
    /\ fn = "_build_series"
    /\ ret' = _build_series(args, kwargs)
    /\ pc' = "done"
    /\ UNCHANGED <<fn, free_symbols, ranges0, ranges, args, nexpr, npar,
                   raised, Dummy_count, kwargs, warnings>>

\* _plot_complex, up to the call of _instantiate_backend; the attributes of
\* the series objects are any the series classes may give them
PlotComplex ==
    /\ pc = "call"
    /\ fn = "_plot_complex"
    /\ \E kinds \in [1..Len(_build_series(args, kwargs)) -> SeriesKinds],
          aspect \in BOOLEAN :
        LET res == _plot_complex(args, kinds,
                                 aspect /\ _build_series(args, kwargs) # <<>>,
                                 kwargs)
        IN  /\ ret' = res.ret
            /\ raised' = res.raised
            /\ warnings' = res.warnings
    /\ pc' = "done"
    /\ UNCHANGED <<fn, free_symbols, ranges0, ranges, args, nexpr, npar,
                   Dummy_count, kwargs>>

\* get_vertices_indices(x, y, z)
GetVerticesIndices ==
    /\ pc = "call"
    /\ fn = "get_vertices_indices"
    /\ ret' = get_vertices_indices(args[1], args[2], args[3])
    /\ pc' = "done"
    /\ UNCHANGED <<fn, free_symbols, ranges0, ranges, args, nexpr, npar,
                   raised, Dummy_count, kwargs, warnings>>

\* get_seeds_points(xx, yy, zz, uu, vv, ww)
GetSeedsPoints ==
    /\ pc = "call"
    /\ fn = "get_seeds_points"
    /\ ret' = get_seeds_points(args[1], args[2], args[3], args[4], args[5],
                               args[6])
    /\ pc' = "done"
    /\ UNCHANGED <<fn, free_symbols, ranges0, ranges, args, nexpr, npar,
                   raised, Dummy_count, kwargs, warnings>>

\* s.get_data(): ret holds the arrays returned since the last update_data
SeriesGetData ==
    /\ fn = "Series"
    /\ ret' = get_data(args[1]).data
    /\ args' = <<get_data(args[1]).series>>
    /\ pc' = "get_data"
    /\ UNCHANGED <<fn, free_symbols, ranges0, ranges, nexpr, npar, raised,
                   Dummy_count, kwargs, warnings>>

\* s.update_data(params) of an interactive series
SeriesUpdateData ==
    /\ fn = "Series"
    /\ args[1].interactive
    /\ \E params \in Bindings : args' = <<update_data(args[1], params)>>
    /\ ret' = <<>>
    /\ pc' = "update_data"
    /\ UNCHANGED <<fn, free_symbols, ranges0, ranges, nexpr, npar, raised,
                   Dummy_count, kwargs, warnings>>

\* plotgrid(*args, nr=..., nc=...)
PlotGrid ==
    /\ pc = "call"
    /\ fn = "plotgrid"
    /\ ret' = IF plotgrid(args, kwargs).raised = "none"
              THEN plotgrid(args, kwargs).mapping
              ELSE <<>>
    /\ raised' = plotgrid(args, kwargs).raised
    /\ pc' = "done"
    /\ UNCHANGED <<fn, free_symbols, ranges0, ranges, args, nexpr, npar,
                   Dummy_count, kwargs, warnings>>

Next ==
    \/ PlotGrid
    \/ CreateRanges
    \/ CheckArguments
    \/ UnpackArgs
    \/ BuildSeries
    \/ PlotComplex
    \/ GetVerticesIndices
    \/ GetSeedsPoints
    \/ SeriesGetData
    \/ SeriesUpdateData

Spec == Init /\ [][Next]_vars

-----------------------------------------------------------------------------
(* Claims about _create_ranges *)

CreateRangesDone == pc = "done" /\ fn = "_create_ranges"

CreateRangesReturned == CreateRangesDone /\ raised = "none"

\* C1: whenever _create_ranges returns without raising, the returned list
\* holds exactly npar ranges, also when a supplied range names a variable
\* that is not a free symbol.
C1_ReturnsExactlyNpar == CreateRangesReturned => Len(ret) = npar

\* C2: whenever _create_ranges returns without raising, every free symbol is
\* the variable of a returned range, and a free symbol that had no supplied
\* range has the default range (symbol, -10, 10) in the returned list.
C2_EveryFreeSymbolHasRange ==
    CreateRangesReturned =>
        /\ free_symbols \subseteq range_symbols(ret)
        /\ \A s \in free_symbols \ range_symbols(ranges0) :
              \E i \in 1..Len(ret) : ret[i] = get_default_range(s)

\* number of ranges once every uncovered free symbol has its default range
LenAfterDefaults ==
    Len(ranges0) + Cardinality(free_symbols \ range_symbols(ranges0))

\* C3: when the ranges are still fewer than npar after the default ranges
\* were added, the returned list is padded up to npar with ranges
\* (d, -10, 10) whose variables d are dummies, pairwise distinct, none of
\* them a free symbol of the expression or the variable of a supplied range.
C3_DummyPadding ==
    (CreateRangesReturned /\ Len(ranges0) < npar /\ LenAfterDefaults < npar) =>
        /\ Len(ret) = npar
        /\ \A i \in (LenAfterDefaults + 1)..npar :
              /\ ret[i].elems[1].kind = "Dummy"
              /\ ret[i] = get_default_range(ret[i].elems[1])
              /\ ret[i].elems[1] \notin free_symbols
              /\ ret[i].elems[1] \notin range_symbols(ranges0)
              /\ \A j \in 1..npar : j # i => ret[j].elems[1] # ret[i].elems[1]

\* a call that pads with at least two dummies while the caller holds a dummy
C3_Witness ==
    /\ CreateRangesReturned
    /\ npar - LenAfterDefaults >= 2
    /\ Len(ranges0) >= 1
    /\ d0 \in range_symbols(ranges0)

\* the first three checks of _create_ranges let the call through
PassedEarlyChecks ==
    /\ Cardinality(free_symbols) <= npar
    /\ Len(ranges0) <= npar
    /\ Cardinality(range_symbols(ranges0)) = Len(ranges0)

\* C4: with as many free symbols as npar, the call fails with
\* IncompatibleRanges exactly when, after filling, some free symbol is the
\* variable of no range, and returns otherwise; with fewer free symbols than
\* npar the final check is skipped and IncompatibleRanges is never raised.
C4_FinalCheck ==
    (CreateRangesDone /\ PassedEarlyChecks) =>
        /\ Cardinality(free_symbols) = npar =>
              /\ raised \in {"none", "IncompatibleRanges"}
              /\ raised = "IncompatibleRanges"
                    <=> ~(free_symbols \subseteq range_symbols(ranges))
        /\ Cardinality(free_symbols) < npar => raised = "none"

\* a call with as many free symbols as npar that the final check rejects
C4_Witness ==
    /\ CreateRangesDone
    /\ PassedEarlyChecks
    /\ Cardinality(free_symbols) = npar
    /\ raised = "IncompatibleRanges"

\* C5: _create_ranges leaves the list passed by the caller as it was,
\* whether it returns or raises.
C5_SuppliedListUnchanged == CreateRangesDone => ranges = ranges0

-----------------------------------------------------------------------------
(* Claims about _check_arguments and _unpack_args *)

CheckArgumentsDone == pc = "done" /\ fn = "_check_arguments"

CheckArgumentsReturned == CheckArgumentsDone /\ raised = "none"

UnpackArgsDone == pc = "done" /\ fn = "_unpack_args"

IsModeA == args # <<>> /\ \A i \in 1..Len(Take(args, nexpr)) : isExpr(args[i])

\* number of expressions the call starts with
LeadingExprs ==
    CHOOSE k \in 0..Len(args) :
        /\ \A i \in 1..k : isExpr(args[i])
        /\ k < Len(args) => ~isExpr(args[k + 1])

\* expressions, then ranges, then at most one label in the last position
ExprsRangesLabel ==
    /\ LeadingExprs >= 1
    /\ \A i \in (LeadingExprs + 1)..Len(args) :
          _is_range(args[i]) \/ (i = Len(args) /\ isStr(args[i]))

Last(s) == s[Len(s)]

\* the elements of an output tuple between its first element and its label
RangesOf(t) == SubSeq(t, 2, Len(t) - 1)

\* C6: in the first branch with nexpr = 1, a call of k >= 1 expressions
\* followed by ranges and an optional last label returns k tuples in the
\* order of the expressions, the i-th made of the i-th expression, one range
\* list shared by all tuples that starts with the supplied ranges, and the
\* label (the supplied one, else the string form of the expression);
\* (x*y, (x,-2,2), (y,-3,3), "lbl") with npar = 2 returns that one tuple.
C6_OneTuplePerExpression ==
    /\ (CheckArgumentsReturned /\ nexpr = 1 /\ ExprsRangesLabel) =>
          LET supplied == SelectSeq(args, _is_range)
              R == RangesOf(ret[1])
          IN  /\ Len(ret) = LeadingExprs
              /\ \A j \in 1..Len(R) : _is_range(R[j])
              /\ Len(R) >= Len(supplied)
              /\ SubSeq(R, 1, Len(supplied)) = supplied
              /\ \A i \in 1..LeadingExprs :
                    ret[i] = <<args[i]>> \o R \o
                             <<IF isStr(Last(args)) THEN Last(args)
                               ELSE Str(args[i].name)>>
    /\ (CheckArgumentsDone /\ nexpr = 1 /\ npar = 2
            /\ args = <<x_y, range_x, range_y, Str("lbl")>>) =>
          /\ raised = "none"
          /\ ret = << <<x_y, range_x, range_y, Str("lbl")>> >>

\* two expressions sharing one supplied range and one label
C6_Witness ==
    /\ CheckArgumentsReturned
    /\ nexpr = 1
    /\ ExprsRangesLabel
    /\ LeadingExprs = 2
    /\ Len(args) = 4
    /\ args[1] # args[2]
    /\ _is_range(args[3])
    /\ isStr(Last(args))

\* C7: in the first branch with nexpr > 1, the expressions are grouped nexpr
\* at a time: the i-th output tuple starts with the i-th run of nexpr
\* consecutive expressions, followed by no further expression, also when
\* the call passes 2*nexpr expressions.
C7_GroupedByNexpr ==
    LET exprs == select_exprs(args)
    IN  (CheckArgumentsReturned /\ IsModeA /\ nexpr > 1
            /\ Len(exprs) % nexpr = 0) =>
          /\ Len(ret) * nexpr = Len(exprs)
          /\ \A i \in 1..Len(ret) :
                /\ Len(ret[i]) > nexpr
                /\ SubSeq(ret[i], 1, nexpr)
                      = SubSeq(exprs, (i - 1) * nexpr + 1, i * nexpr)
                /\ ~isExpr(ret[i][nexpr + 1])

\* t is made of expressions, then ranges only, then one string
CanonicalShape(t) ==
    /\ Len(t) >= 1
    /\ isStr(Last(t))
    /\ \E k \in 0..(Len(t) - 1) :
          /\ \A i \in 1..k : isExpr(t[i])
          /\ \A i \in (k + 1)..(Len(t) - 1) : _is_range(t[i])

\* C8: every tuple returned by _check_arguments, in either branch, is flat:
\* expressions first, then only ranges, then one label string; no range
\* precedes an expression and no group of expressions is nested in it.
C8_CanonicalShape ==
    CheckArgumentsReturned => \A i \in 1..Len(ret) : CanonicalShape(ret[i])

StrsOf(s) == SelectSeq(s, isStr)

\* the arguments of the second branch once the call-level ranges and
\* strings are cut off the end
GroupsOf(a) ==
    LET k == Len(SelectSeq(a, _is_range)) + Len(StrsOf(a))
        rest == IF k > 0 THEN DropLast(a, k) ELSE a
    IN  IF rest # <<>> /\ isSequence(rest[1]) THEN rest ELSE <<List(rest)>>

\* C9 for _unpack_args
C9_UnpackArgs ==
    (UnpackArgsDone /\ Len(StrsOf(args)) >= 2) => ret[3] = StrsOf(args)[1]

\* C9 for the first branch of _check_arguments
C9_ModeA ==
    (CheckArgumentsReturned /\ IsModeA /\ Len(StrsOf(args)) >= 2) =>
        \A i \in 1..Len(ret) : Last(ret[i]) = StrsOf(args)[1]

\* C9 for the second branch of _check_arguments
C9_ModeB ==
    (CheckArgumentsReturned /\ args # <<>> /\ ~IsModeA) =>
        /\ Len(ret) = Len(GroupsOf(args))
        /\ \A i \in 1..Len(ret) :
              LET own == StrsOf(GroupsOf(args)[i].elems)
              IN  /\ Len(own) >= 2 => Last(ret[i]) = own[1]
                  /\ (own = <<>> /\ Len(StrsOf(args)) >= 2) =>
                        Last(ret[i]) = StrsOf(args)[1]

\* C9: when several strings are among the items of one call, the label is
\* the first string in argument order, in _unpack_args and in both branches
\* of _check_arguments (per group and call-level in the second).
C9_FirstStringWins == C9_UnpackArgs /\ C9_ModeA /\ C9_ModeB

\* the expressions an output tuple starts with
ExprsOf(t) == SelectSeq(t, isExpr)

\* the string form of the expression(s) of an output tuple
DefaultLabel(t, ne) ==
    IF ne = 1 THEN Str(str(t[1])) ELSE Str(str(PyTuple(ExprsOf(t))))

C10_UnpackArgs ==
    (UnpackArgsDone /\ StrsOf(args) = <<>>) =>
        ret[3] = IF Len(ret[1].elems) = 1 THEN Str(str(ret[1].elems[1]))
                 ELSE Str(str(PyTuple(ret[1].elems)))

C10_ModeA_NoLabel ==
    (CheckArgumentsReturned /\ IsModeA /\ StrsOf(args) = <<>>) =>
        \A i \in 1..Len(ret) : Last(ret[i]) = DefaultLabel(ret[i], nexpr)

C10_ModeB_NoLabel ==
    (CheckArgumentsReturned /\ args # <<>> /\ ~IsModeA) =>
        \A i \in 1..Len(ret) :
            (StrsOf(args) = <<>> /\ StrsOf(GroupsOf(args)[i].elems) = <<>>) =>
                Last(ret[i]) = DefaultLabel(ret[i], nexpr)

C10_ModeA_Label ==
    (CheckArgumentsReturned /\ IsModeA /\ StrsOf(args) # <<>>) =>
        \E l \in {args[j] : j \in {k \in 1..Len(args) : isStr(args[k])}} :
            \A i \in 1..Len(ret) : Last(ret[i]) = l

\* C10: without a supplied label, the label of every output entry is the
\* string form of the entry's expression (nexpr = 1) or of its tuple of
\* expressions (nexpr > 1), in both branches of _check_arguments and in
\* _unpack_args; with a label supplied in the first branch, every entry of
\* the call carries that label.
C10_DefaultLabel ==
    /\ C10_UnpackArgs
    /\ C10_ModeA_NoLabel
    /\ C10_ModeB_NoLabel
    /\ C10_ModeA_Label

-----------------------------------------------------------------------------
(* Claims about the second branch of _check_arguments *)

\* a call of groups, then call-level ranges and strings
IsGroupCall == args # <<>> /\ args[1].kind = "Tuple" /\ ~_is_range(args[1])

\* the elements of the i-th group
GroupElems(i) == GroupsOf(args)[i].elems

\* what the code takes as the expressions of the i-th group
GroupExprs(i) == Take(GroupElems(i), nexpr)

\* the ranges of the i-th output tuple
GroupRanges(i) == SubSeq(ret[i], Len(GroupExprs(i)) + 1, Len(ret[i]) - 1)

\* the ranges the i-th group starts from: its own, else the call-level ones
BaseRanges(i) ==
    IF SelectSeq(GroupElems(i), _is_range) # <<>>
    THEN SelectSeq(GroupElems(i), _is_range)
    ELSE SelectSeq(args, _is_range)

\* C11: in the second branch there is one output tuple per group, in input
\* order; a group with ranges of its own uses them and not the call-level
\* ranges, a group without uses the call-level ranges as the caller passed
\* them (what was added for an earlier group is not among them: every added
\* range is a default range over a free symbol of this group or over a
\* dummy); the label is the group's own first string, else the call-level
\* one, else the string form of the expression(s).
C11_GroupFallback ==
    (CheckArgumentsReturned /\ IsGroupCall) =>
        /\ Len(ret) = Len(GroupsOf(args))
        /\ \A i \in 1..Len(ret) :
              LET R    == GroupRanges(i)
                  base == BaseRanges(i)
                  own  == StrsOf(GroupElems(i))
              IN  /\ SubSeq(ret[i], 1, Len(GroupExprs(i))) = GroupExprs(i)
                  /\ Len(R) >= Len(base)
                  /\ SubSeq(R, 1, Len(base)) = base
                  /\ \A j \in (Len(base) + 1)..Len(R) :
                        /\ R[j] = get_default_range(R[j].elems[1])
                        /\ \/ R[j].elems[1].kind = "Dummy"
                           \/ R[j].elems[1] \in union_free_symbols(GroupExprs(i))
                  /\ Last(ret[i]) =
                        IF own # <<>> THEN own[1]
                        ELSE IF StrsOf(args) # <<>> THEN StrsOf(args)[1]
                        ELSE IF nexpr = 1 THEN Str(str(GroupExprs(i)[1]))
                        ELSE Str(str(Tuple(GroupExprs(i))))

\* two groups without ranges of their own share a call-level range list that
\* is shorter than npar and is filled for each of them
C11_Witness ==
    /\ CheckArgumentsReturned
    /\ IsGroupCall
    /\ Len(ret) = 2
    /\ SelectSeq(args, _is_range) # <<>>
    /\ Len(SelectSeq(args, _is_range)) < npar
    /\ \A i \in 1..2 : SelectSeq(GroupElems(i), _is_range) = <<>>
    /\ GroupExprs(1) # GroupExprs(2)

\* C12: in the second branch a group whose expressions have npar free
\* symbols, one of them the variable of none of the group's ranges, is
\* rejected with a range-resolution error, also when the group carries
\* exactly npar ranges.
C12_GroupConsistency ==
    (CheckArgumentsDone /\ IsGroupCall) =>
        \A i \in 1..Len(GroupsOf(args)) :
            LET g  == GroupElems(i)
                es == SelectSeq(g, isExpr)
                fsyms == union_free_symbols(es)
            IN  (/\ \A j \in 1..Len(g) : ~isStr(g[j])
                 /\ Len(es) = nexpr
                 /\ GroupExprs(i) = es
                 /\ Cardinality(fsyms) = npar
                 /\ Len(BaseRanges(i)) = npar
                 /\ ~(fsyms \subseteq range_symbols(BaseRanges(i))))
                => raised \in {"IncompatibleRanges", "TooManyFreeSymbols",
                               "TooManyRanges", "DuplicateRangeSymbol"}

\* some item after the leading expressions is neither a range nor a string
FollowedByNonRange ==
    \E i \in (LeadingExprs + 1)..Len(args) :
        ~isExpr(args[i]) /\ ~_is_range(args[i]) /\ ~isStr(args[i])

\* C13: in the first branch, when the leading expressions are followed by
\* an item that is neither a range nor a string, the call raises the
\* "Expressions must be followed by ranges" error and returns no tuples.
C13_MalformedRejected ==
    (CheckArgumentsDone /\ IsModeA /\ FollowedByNonRange) =>
        raised = "MalformedArguments"

\* two ranges of s name the same variable
HasDuplicateRange(s) ==
    \E i, j \in 1..Len(s) :
        /\ i < j
        /\ _is_range(s[i])
        /\ _is_range(s[j])
        /\ s[i].elems[1] = s[j].elems[1]

\* every group starts with its nexpr expressions
GroupsStartWithExprs ==
    \A i \in 1..Len(GroupsOf(args)) :
        /\ Len(GroupElems(i)) >= nexpr
        /\ \A j \in 1..nexpr : isExpr(GroupElems(i)[j])

\* a call of the shape the documentation describes
WellShapedCall ==
    \/ IsGroupCall /\ GroupsStartWithExprs
    \/ IsModeA /\ ExprsRangesLabel

\* C14: no tuple returned by _check_arguments holds two ranges over the
\* same variable, and a call or a group that supplies two ranges over the
\* same variable is rejected, with DuplicateRangeSymbol when the number of
\* ranges supplied equals npar.
C14_NoDuplicateRange ==
    /\ (CheckArgumentsReturned /\ WellShapedCall) =>
          \A i \in 1..Len(ret) : ~HasDuplicateRange(ret[i])
    /\ (CheckArgumentsDone /\ WellShapedCall) =>
          /\ HasDuplicateRange(args) => raised # "none"
          /\ IsGroupCall =>
                \A i \in 1..Len(GroupsOf(args)) :
                    (/\ HasDuplicateRange(GroupElems(i))
                     /\ \A k \in 1..i : \A j \in 1..Len(GroupElems(k)) :
                           ~isStr(GroupElems(k)[j]))
                    => raised # "none"

-----------------------------------------------------------------------------
(* Claims about _build_series and _plot_complex of spb/ccomplex/complex.py *)

BuildSeriesDone == pc = "done" /\ fn = "_build_series"

PlotComplexDone == pc = "done" /\ fn = "_plot_complex"

Flags == {"absarg", "real", "imag", "abs", "arg"}

\* the items of the dict kw
DictItems(kw) == {kw[i] : i \in 1..Len(kw)}

\* the flag is on in the call: given as True, or absarg not given as False
Enabled(key) ==
    \/ <<key, TRUE>> \in DictItems(kwargs)
    \/ key = "absarg" /\ <<key, FALSE>> \notin DictItems(kwargs)

EnabledFlags == {key \in Flags : Enabled(key)}

\* the series of the e-th expression, if every expression has as many series
\* as there are enabled flags
SeriesFor(e) ==
    SubSeq(ret, (e - 1) * Cardinality(EnabledFlags) + 1,
           e * Cardinality(EnabledFlags))

\* the return tag of a series
Tag(s) == get(s.kw, "return", "")

\* C15: _build_series produces one series per expression and enabled flag
\* among absarg, real, imag, abs, arg: the number of series of an expression
\* is the number of enabled flags, their return tags are distinct and are
\* the enabled flags, and all series of an expression carry its expression
\* and its range.
C15_OneSeriesPerFlag ==
    BuildSeriesDone =>
        /\ Len(ret) = Len(args) * Cardinality(EnabledFlags)
        /\ \A e \in 1..Len(args) :
              LET ss == SeriesFor(e)
              IN  /\ {Tag(ss[i]) : i \in 1..Len(ss)} = EnabledFlags
                  /\ \A i, j \in 1..Len(ss) : Tag(ss[i]) = Tag(ss[j]) => i = j
                  /\ \A i \in 1..Len(ss) :
                        /\ get(ss[i].kw, Tag(ss[i]), FALSE) = TRUE
                        /\ ss[i].expr = args[e][1]
                        /\ ss[i].ranges = ss[1].ranges
                        /\ Len(ss[i].ranges) = 1
                        /\ ss[i].ranges[1][1] = args[e][2].elems[1]

C15_Witness ==
    /\ BuildSeriesDone
    /\ Len(args) = 2
    /\ args[1] # args[2]
    /\ Cardinality(EnabledFlags) >= 3
    /\ Len(ret) = 2 * Cardinality(EnabledFlags)

\* the place of a flag in the order absarg, real, imag, abs, arg
Rank(key) ==
    CASE key = "absarg" -> 1
      [] key = "real"   -> 2
      [] key = "imag"   -> 3
      [] key = "abs"    -> 4
      [] key = "arg"    -> 5

\* the base label of the e-th expression: the one given, else str(expr)
BaseLabel(e) ==
    IF args[e][3] = None THEN str(args[e][1]) ELSE args[e][3].name

\* the bounds of the e-th expression's range have equal imaginary parts
Is1DRange(e) ==
    complex(args[e][2].elems[2]).imag = complex(args[e][2].elems[3]).imag

\* C16: the series come in a fixed order: those of an earlier expression
\* before those of a later one, and for one expression in the order absarg,
\* real, imag, abs, arg, whatever the order in which the flags are passed;
\* with only real and imag enabled, one expression over a 1D range gives
\* the two series Re(f), Im(f) in this order.
C16_SeriesOrder ==
    BuildSeriesDone =>
        /\ Len(ret) = Len(args) * Cardinality(EnabledFlags)
        /\ \A e \in 1..Len(args) :
              LET ss == SeriesFor(e)
              IN  /\ \A i \in 1..Len(ss) :
                        /\ ss[i].expr = args[e][1]
                        /\ ss[i].ranges[1][1] = args[e][2].elems[1]
                        /\ Is1DRange(e) <=> ss[i].cls = "LineOver1DRangeSeries"
                  /\ \A i, j \in 1..Len(ss) :
                        i < j => Rank(Tag(ss[i])) < Rank(Tag(ss[j]))
        /\ (EnabledFlags = {"real", "imag"} /\ Len(args) = 1 /\ Is1DRange(1)) =>
              /\ Len(ret) = 2
              /\ ret[1].label = "Re(" \o BaseLabel(1) \o ")"
              /\ ret[2].label = "Im(" \o BaseLabel(1) \o ")"

\* imag is passed before real, and absarg=False last
C16_Witness ==
    /\ BuildSeriesDone
    /\ kwargs = <<<<"imag", TRUE>>, <<"real", TRUE>>, <<"absarg", FALSE>>>>
    /\ Len(args) = 1
    /\ Is1DRange(1)
    /\ Len(ret) = 2
    /\ Tag(ret[1]) = "real"
    /\ Tag(ret[2]) = "imag"

\* the label the claim gives the projection key of base label l
Projection(key, l) ==
    CASE key = "real"   -> "Re(" \o l \o ")"
      [] key = "imag"   -> "Im(" \o l \o ")"
      [] key = "abs"    -> "Abs(" \o l \o ")"
      [] key = "arg"    -> "Arg(" \o l \o ")"
      [] key = "absarg" -> "Arg(" \o l \o ")"

C18_NoSeries ==
    /\ (BuildSeriesDone /\ EnabledFlags = {}) => ret = <<>>
    /\ (PlotComplexDone /\ EnabledFlags = {}) =>
          /\ raised = "none"
          /\ warnings = <<"No series found. Check your keyword arguments.">>
          /\ Len(ret) = 1
          /\ ret[1].series = <<>>

C18_Witness ==
    /\ PlotComplexDone
    /\ EnabledFlags = {}
    /\ warnings # <<>>
    /\ Len(ret) = 1

\* C19: the kind of series depends on the range only: when the imaginary
\* parts of its bounds are equal every series is a line series and gets the
\* coloring option only if the call has it; when they differ every series
\* is a complex surface series whose coloring option is the call's value if
\* there is one, else the configured default.
C19_DispatchOnRange ==
    BuildSeriesDone =>
        \A e \in 1..Len(args) : \A i \in 1..Len(SeriesFor(e)) :
            LET s == SeriesFor(e)[i]
            IN  IF Is1DRange(e)
                THEN /\ s.cls = "LineOver1DRangeSeries"
                     /\ haskey(s.kw, "coloring") <=> haskey(kwargs, "coloring")
                     /\ get(s.kw, "coloring", "") = get(kwargs, "coloring", "")
                ELSE /\ s.cls = "ComplexSurfaceBaseSeries"
                     /\ haskey(s.kw, "coloring")
                     /\ get(s.kw, "coloring", "") =
                           get(kwargs, "coloring", cfg_complex_coloring)

\* a call that passes a coloring, with one expression over a 1D range and
\* one over a 2D domain
C19_Witness ==
    /\ BuildSeriesDone
    /\ haskey(kwargs, "coloring")
    /\ Len(args) = 2
    /\ Is1DRange(1)
    /\ ~Is1DRange(2)
    /\ Len(ret) >= 2

-----------------------------------------------------------------------------
(* Claims about get_vertices_indices *)

GetVerticesIndicesDone == pc = "done" /\ fn = "get_vertices_indices"

\* the shape of the grids of the call
Rows == args[1].shape[1]
Cols == args[1].shape[2]

\* C20: for grids of rows x cols entries, rows, cols >= 1,
\* get_vertices_indices returns rows*cols vertices, vertex cols*i + j being
\* (x[i,j], y[i,j], z[i,j]), and 2*(rows-1)*(cols-1) faces whose indices
\* all lie in [0, rows*cols): 8 faces for a 3x3 grid, none when rows = 1
\* or cols = 1.
C20_VerticesAndFaces ==
    GetVerticesIndicesDone =>
        LET vertices == ret[1]
            indices  == ret[2]
        IN  /\ DOMAIN vertices = 0..(Rows * Cols - 1)
            /\ \A i \in 0..(Rows - 1) : \A j \in 0..(Cols - 1) :
                  vertices[Cols * i + j] =
                      <<args[1].data[<<i, j>>], args[2].data[<<i, j>>],
                        args[3].data[<<i, j>>]>>
            /\ Len(indices) = 2 * (Rows - 1) * (Cols - 1)
            /\ \A f \in 1..Len(indices) :
                  /\ Len(indices[f]) = 3
                  /\ \A k \in 1..3 : indices[f][k] \in 0..(Rows * Cols - 1)
            /\ (Rows = 3 /\ Cols = 3) => Len(indices) = 8
            /\ (Rows = 1 \/ Cols = 1) => indices = <<>>

\* a grid of two rows and three columns and its four faces
C20_Witness ==
    /\ GetVerticesIndicesDone
    /\ Rows = 2
    /\ Cols = 3
    /\ Len(ret[2]) = 4
    /\ ret[1][5] = <<args[1].data[<<1, 2>>], args[2].data[<<1, 2>>],
                     args[3].data[<<1, 2>>]>>

\* the f-th triangle of the reference sequence: the cells (i, j),
\* 1 <= i < rows, 1 <= j < cols, row after row, two triangles each
ReferenceFace(f) ==
    LET c == (f - 1) \div 2
        i == (c \div (Cols - 1)) + 1
        j == (c % (Cols - 1)) + 1
    IN  IF f % 2 = 1
        THEN <<Cols * i + j, Cols * (i - 1) + j, Cols * i + (j - 1)>>
        ELSE <<Cols * (i - 1) + (j - 1), Cols * i + (j - 1),
               Cols * (i - 1) + j>>

\* C21: the face list of get_vertices_indices is, for every cell (i, j) with
\* 1 <= i < rows and 1 <= j < cols taken row after row, the triangle
\* [k(i,j), k(i-1,j), k(i,j-1)] and then [k(i-1,j-1), k(i,j-1), k(i-1,j)],
\* with k(i,j) = cols*i + j, and nothing else.
C21_FaceSequence ==
    GetVerticesIndicesDone =>
        /\ Len(ret[2]) = 2 * (Rows - 1) * (Cols - 1)
        /\ \A f \in 1..Len(ret[2]) : ret[2][f] = ReferenceFace(f)

\* a grid of three rows and three columns: the first cell's triangles and
\* the last cell's second one
C21_Witness ==
    /\ GetVerticesIndicesDone
    /\ Rows = 3
    /\ Cols = 3
    /\ Len(ret[2]) = 8
    /\ ret[2][1] = <<4, 1, 3>>
    /\ ret[2][2] = <<0, 3, 1>>
    /\ ret[2][8] = <<4, 7, 5>>

\* the set of vertices of a face
Corners(face) == {face[1], face[2], face[3]}

\* the cell (i, j) of vertex index k
CellOf(k) == <<k \div Cols, k % Cols>>

\* twice the signed area of a face in (i, j) index space
Orientation(face) ==
    LET a == CellOf(face[1])
        b == CellOf(face[2])
        c == CellOf(face[3])
    IN  (b[1] - a[1]) * (c[2] - a[2]) - (b[2] - a[2]) * (c[1] - a[1])

\* C29: in the mesh of get_vertices_indices the two triangles of every cell
\* share exactly the diagonal edge {k(i-1,j), k(i,j-1)} and use together the
\* four corners of the cell, no triangle repeats a vertex, every vertex is
\* used by a face when rows, cols >= 2, and all triangles have the same
\* orientation sign in (i, j) index space.
C29_MeshTriangles ==
    GetVerticesIndicesDone =>
        LET indices == ret[2]
        IN  /\ \A i \in 1..(Rows - 1) : \A j \in 1..(Cols - 1) :
                  LET f  == 2 * ((i - 1) * (Cols - 1) + (j - 1)) + 1
                      t1 == Corners(indices[f])
                      t2 == Corners(indices[f + 1])
                  IN  /\ t1 \cap t2 = {Cols * (i - 1) + j, Cols * i + (j - 1)}
                      /\ t1 \cup t2 = {Cols * i + j, Cols * (i - 1) + j,
                                       Cols * i + (j - 1),
                                       Cols * (i - 1) + (j - 1)}
            /\ \A f \in 1..Len(indices) : Cardinality(Corners(indices[f])) = 3
            /\ (Rows >= 2 /\ Cols >= 2) =>
                  \A k \in 0..(Rows * Cols - 1) :
                      \E f \in 1..Len(indices) : k \in Corners(indices[f])
            /\ \A f, g \in 1..Len(indices) :
                  Orientation(indices[f]) * Orientation(indices[g]) > 0

\* a mesh of four cells
C29_Witness ==
    /\ GetVerticesIndicesDone
    /\ Rows = 3
    /\ Cols = 3
    /\ Len(ret[2]) = 8
    /\ Orientation(ret[2][1]) = Orientation(ret[2][8])

-----------------------------------------------------------------------------
(* Claims about get_seeds_points *)

GetSeedsPointsDone == pc = "done" /\ fn = "get_seeds_points"

\* the shape of the arrays of the call
Shape == args[1].shape

\* the six faces in the order x-min, x-max, y-min, y-max, z-min, z-max: the
\* index that is fixed, the end it is fixed at and the normal component
SeedFaces ==
    <<[axis |-> 2, max |-> FALSE, comp |-> 4],
      [axis |-> 2, max |-> TRUE,  comp |-> 4],
      [axis |-> 1, max |-> FALSE, comp |-> 5],
      [axis |-> 1, max |-> TRUE,  comp |-> 5],
      [axis |-> 3, max |-> FALSE, comp |-> 6],
      [axis |-> 3, max |-> TRUE,  comp |-> 6]>>

\* the index triples of the samples of a face, in the order of its plane:
\* the lower of the two free indices outside, the higher inside
FaceCells(face) ==
    LET idx == IF face.max THEN Shape[face.axis] - 1 ELSE 0
        p == IF face.axis = 1 THEN 2 ELSE 1
        q == IF face.axis = 3 THEN 2 ELSE 3
    IN  [k \in 1..(Shape[p] * Shape[q]) |->
            [t \in 1..3 |->
                IF t = face.axis THEN idx
                ELSE IF t = p THEN (k - 1) \div Shape[q]
                ELSE (k - 1) % Shape[q]]]

\* the normal component of the field at a sample is strictly inward
Inward(face, cell) ==
    IF face.max THEN args[face.comp].data[cell] < 0
    ELSE args[face.comp].data[cell] > 0

\* the coordinates of a sample
PointAt(cell) ==
    <<args[1].data[cell], args[2].data[cell], args[3].data[cell]>>

\* the seeds of a face
FaceSeeds(face) ==
    LET cells == SelectSeq(FaceCells(face), LAMBDA c : Inward(face, c))
    IN  [k \in 1..Len(cells) |-> PointAt(cells[k])]

\* the samples of a face, as a set
OnFace(face) == {FaceCells(face)[k] : k \in 1..Len(FaceCells(face))}

\* C22: the seed list is the concatenation, in the order x-min, x-max,
\* y-min, y-max, z-min, z-max, of the samples of each face at which the
\* normal component of the field is strictly inward (> 0 on a min face,
\* < 0 on a max face, never 0); a sample that qualifies on m faces appears
\* m times, and every seed is a sample of a face.
C22_SeedsPerFace ==
    GetSeedsPointsDone =>
        /\ ret = FaceSeeds(SeedFaces[1]) \o FaceSeeds(SeedFaces[2])
                 \o FaceSeeds(SeedFaces[3]) \o FaceSeeds(SeedFaces[4])
                 \o FaceSeeds(SeedFaces[5]) \o FaceSeeds(SeedFaces[6])
        /\ \A cell \in Cells3(Shape) :
              Cardinality({k \in 1..Len(ret) : ret[k] = PointAt(cell)}) =
              Cardinality({f \in 1..6 : /\ cell \in OnFace(SeedFaces[f])
                                        /\ Inward(SeedFaces[f], cell)})
        /\ \A k \in 1..Len(ret) :
              \E f \in 1..6 : \E cell \in OnFace(SeedFaces[f]) :
                  ret[k] = PointAt(cell)

\* a sample that is a seed of two faces, and one whose normal component is
\* zero on a face
C22_Witness ==
    /\ GetSeedsPointsDone
    /\ Shape = <<2, 2, 2>>
    /\ \E i, j \in 1..Len(ret) : i < j /\ ret[i] = ret[j]
    /\ \E cell \in OnFace(SeedFaces[1]) : args[4].data[cell] = 0
    /\ \E cell \in OnFace(SeedFaces[1]) : args[4].data[cell] > 0

\* the field is strictly inward at every sample of every face
InwardEverywhere ==
    \A f \in 1..6 : \A cell \in OnFace(SeedFaces[f]) :
        Inward(SeedFaces[f], cell)

\* C23: for a field whose normal component is strictly inward at every
\* sample of each of the six faces of a grid of N x N x N samples,
\* get_seeds_points returns 6*N*N seeds.
C23_InwardFieldCount ==
    (/\ GetSeedsPointsDone
     /\ Shape[1] = Shape[2]
     /\ Shape[2] = Shape[3]
     /\ InwardEverywhere)
    => Len(ret) = 6 * Shape[1] * Shape[1]

C23_Witness ==
    /\ GetSeedsPointsDone
    /\ Shape = <<2, 2, 2>>
    /\ InwardEverywhere
    /\ Len(ret) = 24

-----------------------------------------------------------------------------
(* Claims about the Series objects *)

\* get_data has just returned
SeriesReturned == fn = "Series" /\ pc = "get_data"

\* the series of the behaviour
TheSeries == args[1]

NonInteractive(s) ==
    NewSeries(s.kind, FALSE,
              [k \in 1..Len(s.exprs) |-> [s.exprs[k] EXCEPT !.times_u = FALSE]],
              s.range, s.n, s.scale, s.return, 1)

CoordinateArray == IF TheSeries.kind = "parametric" THEN ret[3] ELSE ret[1]

\* the array of the k-th expression among the arrays of a series
ComponentArray(k) ==
    CASE TheSeries.kind = "line"       -> ret[2]
      [] TheSeries.kind = "parametric" -> ret[k]
      [] TheSeries.kind = "complex"    -> ret[2]

\* the k-th expression is a number
IsConstant(k) ==
    TheSeries.exprs[k].base = "const" /\ ~TheSeries.exprs[k].times_u

ConstantValue(c) ==
    CASE TheSeries.kind # "complex" -> c
      [] TheSeries.return = "real"  -> c
      [] TheSeries.return = "imag"  -> 0
      [] TheSeries.return = "abs"   -> IF c < 0 THEN 0 - c ELSE c

Gap(k) == CoordinateArray[k + 1] - CoordinateArray[k]

-----------------------------------------------------------------------------
(* Claims about the classification of ranges *)

\* (symbol, number, number)
IsSymbolRange(t) ==
    /\ t.kind = "Tuple"
    /\ Len(t.elems) = 3
    /\ t.elems[1].kind \in {"Symbol", "Dummy"}
    /\ is_number(t.elems[2])
    /\ is_number(t.elems[3])

\* t is among the items of the sequence s
Among(t, s) == \E i \in 1..Len(s) : s[i] = t

\* C28 for _unpack_args: the items returned as ranges are tuples (symbol,
\* number, number), and a tuple of three items whose first is a number or a
\* compound expression is returned among the expressions
C28_UnpackArgs ==
    UnpackArgsDone =>
        \A i \in 1..Len(args) :
            /\ Among(args[i], ret[2].elems) => IsSymbolRange(args[i])
            /\ args[i] \in ExprTriples => Among(args[i], ret[1].elems)

\* C28 for _check_arguments: the ranges of the output entries are tuples
\* (symbol, number, number)
C28_CheckArguments ==
    (CheckArgumentsDone /\ raised = "none") =>
        \A i \in 1..Len(ret) :
            \A j \in 1..Len(ret[i]) :
                _is_range(ret[i][j]) => IsSymbolRange(ret[i][j])

\* C28: an item is classified as a range, by _is_range and so by
\* _check_arguments and _unpack_args, only if it is a tuple of three items
\* whose first is a symbol and whose second and third are numbers; a tuple
\* of three items whose first is a number or a compound expression, as
\* (cos(x), 1, 2), is treated as expressions.
C28_RangeOnlyIfSymbolFirst == C28_UnpackArgs /\ C28_CheckArguments

-----------------------------------------------------------------------------
(* Claims about plotgrid *)

PlotGridDone == pc = "done" /\ fn = "plotgrid"

\* the grid the call resolves nr and nc to
Grid == _nrows_ncols(get(kwargs, "nr", -1), get(kwargs, "nc", 1), Len(args))

\* the cells the mapping gives the plot p
CellsOf(p) == {ret[k][1] : k \in {m \in 1..Len(ret) : ret[m][2] = p}}

\* C30: in the first mode of plotgrid (no gs, n >= 1 plots), for every nr
\* and nc the call resolves a grid with nr >= 1, nc >= 1 and nr*nc >= n,
\* and gives each plot exactly one cell in row-major order, plot c the cell
\* (c div nc, c mod nc), without reading past the end of the plots, also
\* when nr*nc > n; with the defaults nr = -1, nc = 1 the grid has n rows
\* and one column.
C30_PlotGridFirstMode ==
    (PlotGridDone /\ Len(args) >= 1) =>
        /\ Grid[1] >= 1
        /\ Grid[2] >= 1
        /\ Grid[1] * Grid[2] >= Len(args)
        /\ raised = "none"
        /\ \A c \in 0..(Len(args) - 1) :
              CellsOf(args[c + 1]) = {<<c \div Grid[2], c % Grid[2]>>}
        /\ kwargs = <<>> => Grid = <<Len(args), 1>>

\* the grid of plotgrid has as many cells as there are plots
C30_ExactGrid ==
    (PlotGridDone /\ Len(args) >= 1 /\ Grid[1] * Grid[2] = Len(args)) =>
        /\ raised = "none"
        /\ \A c \in 0..(Len(args) - 1) :
              CellsOf(args[c + 1]) = {<<c \div Grid[2], c % Grid[2]>>}

\* the grid of plotgrid: at least one row, one column and one cell per plot
C30_GridResolved ==
    (PlotGridDone /\ Len(args) >= 1) =>
        /\ Grid[1] >= 1
        /\ Grid[2] >= 1
        /\ Grid[1] * Grid[2] >= Len(args)
        /\ kwargs = <<>> => Grid = <<Len(args), 1>>

====
